---- MODULE Spec2Model ----
(***************************************************************************)
(* Model of the CP2K easyblock (easybuild/easyblocks/c/cp2k.py):           *)
(*   - the regression-report analysis at the end of EB_CP2K.test_step,     *)
(*   - the link-group normalization of LIBS in EB_CP2K.configure_step,     *)
(*   - the configuration synthesis of EB_CP2K.configure_step.              *)
(* The code is Python 2: "/" on two ints is floor division, a dict has no  *)
(* insertion order, and self.log.error(...) raises EasyBuildError (the     *)
(* code after an "else: self.log.error(...)" relies on it, e.g. the use of *)
(* "options" after line 171).                                              *)
(*                                                                         *)
(* A Python string is modelled as a sequence of chunks: each chunk is a    *)
(* piece of text that the code never looks inside, a blank is the chunk    *)
(* " ".  Concatenation is \o, str.replace is Replace.                      *)
(***************************************************************************)
EXTENDS Integers, Sequences, FiniteSets, TLC

VARIABLES
    \* ---- test_step: regression report ----
    regtest_output,        \* the captured output of do_regtest, a sequence of summary lines
    ignore_regtest_fails,  \* self.cfg['ignore_regtest_fails']
    tot_cnt,               \* tot_cnt of test_step (None until the total is found)
    log,                   \* what self.log received, in order
    exc,                   \* the exception that ended test_step, "none" while it runs
    pc,                    \* the position in test_step
    \* ---- link-group normalization applied repeatedly ----
    libs_input,            \* the LIBS value the first application started from
    libs_value,            \* options['LIBS']
    prev_value,            \* options['LIBS'] before the latest application
    napplied,              \* how often lines 191-193 were applied
    \* ---- configure_step: configuration synthesis ----
    facts,                 \* what the easyconfig, the toolchain and the loaded modules say
    self,                  \* the fields of the EB_CP2K instance and its cfg
    options,               \* the options dict of configure_step (NoOptions before and on error)
    calls,                 \* the configure_* fragments applied, in order
    archfile,              \* the text written to the arch file (NoText if none)
    cfg_exc,               \* the error that ended configure_step, "none" otherwise
    cpc,                   \* the position of the build: "ready", "done" or "failed"
    ncalls,                \* how often configure_step was called on the instance
    prev_facts,            \* the facts of the call before the latest one
    prev_options           \* the options of the call before the latest one

reportVars == <<regtest_output, ignore_regtest_fails, tot_cnt, log, exc, pc>>
normVars == <<libs_input, libs_value, prev_value, napplied>>
configVars == <<facts, self, options, calls, archfile, cfg_exc, cpc,
                ncalls, prev_facts, prev_options>>
vars == <<regtest_output, ignore_regtest_fails, tot_cnt, log, exc, pc,
          libs_input, libs_value, prev_value, napplied,
          facts, self, options, calls, archfile, cfg_exc, cpc,
          ncalls, prev_facts, prev_options>>

\* Python's None, for a count that is an int otherwise.
None == -1

(***************************************************************************)
(* Bounds of the regression outputs that are explored.                     *)
(***************************************************************************)
MaxCount == 20
MaxFailed == 2
MaxNew == 1

(***************************************************************************)
(* Regression output.  A summary line reads                                *)
(*     "Number of" <sp blanks> [<word> <blanks>] "tests" <blanks> <cnt>    *)
(* word = "" is the line of the total, which has no category word.         *)
(***************************************************************************)
Categories == <<"FAILED", "WRONG", "NEW", "CORRECT">>

SummaryLine(word, sp, cnt) == [word |-> word, sp |-> sp, cnt |-> cnt]

\* re_pattern % test_result (line 688) against one line.  The pattern has a
\* \s+ on each side of the category word, so with an empty category word
\* it reads "of\s+\s+tests": two blanks at least.
PatternMatches(test_result, line) ==
    IF test_result = ""
    THEN line.word = "" /\ line.sp >= 2
    ELSE line.word = test_result /\ line.sp >= 1

RECURSIVE SearchFrom(_, _, _)
SearchFrom(test_result, output, i) ==
    IF i > Len(output) THEN None
    ELSE IF PatternMatches(test_result, output[i]) THEN output[i].cnt
    ELSE SearchFrom(test_result, output, i + 1)

\* regexp.search(regtest_output) and int(res.group('cnt')): the count of
\* the first match, None without a match.
Search(test_result, output) == SearchFrom(test_result, output, 1)

\* Python 2: cnt / tot_cnt on two non-negative ints.
PyIntDiv(a, b) == a \div b

LogEntry(level, about, cnt, tot) ==
    [level |-> level, about |-> about, cnt |-> cnt, tot |-> tot]

\* The branch test of line 720, for b /= 0 where the division is evaluated.
\* (cnt / tot_cnt) > 0.1 is compared in tenths.
ReportIsFailure(test_result, cnt, tot) ==
    \/ test_result = "FAILED" /\ cnt > 0
    \/ test_result = "WRONG" /\ 10 * PyIntDiv(cnt, tot) > 1

\* ReportLogging with the ignore_regtest_fails test of line 721 dropped.
ReportLogging_NoIgnore(test_result, cnt, tot, ignore) ==
    IF ReportIsFailure(test_result, cnt, tot)
    THEN [exc |-> "EasyBuildError",
          entries |-> <<LogEntry("error", test_result, cnt, tot)>>]
    ELSE IF test_result = "CORRECT" \/ cnt = 0
    THEN [exc |-> "none", entries |-> <<LogEntry("info", test_result, cnt, tot)>>]
    ELSE [exc |-> "none", entries |-> <<LogEntry("warning", test_result, cnt, tot)>>]

\* The log calls of lines 720-729 for a count that was found.
ReportLogging(test_result, cnt, tot, ignore) ==
    IF ReportIsFailure(test_result, cnt, tot)
    THEN IF ignore
         THEN [exc |-> "none",
               entries |-> <<LogEntry("warning", test_result, cnt, tot),
                             LogEntry("info", "ignoring", None, None)>>]
         ELSE [exc |-> "EasyBuildError",
               entries |-> <<LogEntry("error", test_result, cnt, tot)>>]
    ELSE IF test_result = "CORRECT" \/ cnt = 0
    THEN [exc |-> "none", entries |-> <<LogEntry("info", test_result, cnt, tot)>>]
    ELSE [exc |-> "none", entries |-> <<LogEntry("warning", test_result, cnt, tot)>>]

\* test_report(test_result): what it logs and how it ends.
test_report(test_result, output, tot, ignore) ==
    LET cnt == Search(test_result, output) IN
    IF cnt = None
    THEN [exc |-> "EasyBuildError",
          entries |-> <<LogEntry("error", "notfound", None, None)>>]
    ELSE IF test_result = "WRONG" /\ tot = 0
    THEN [exc |-> "ZeroDivisionError", entries |-> <<>>]
    ELSE ReportLogging(test_result, cnt, tot, ignore)

\* FindTotal going on with a total of zero when the pattern is not found.
FindTotal_SilentZero ==
    /\ pc = "total" /\ exc = "none"
    /\ LET cnt == Search("", regtest_output) IN
       tot_cnt' = IF cnt /= None THEN cnt ELSE 0
    /\ pc' = "FAILED"
    /\ UNCHANGED <<log, exc, regtest_output, ignore_regtest_fails>>
    /\ UNCHANGED <<libs_input, libs_value, prev_value, napplied>>
    /\ UNCHANGED <<facts, self, options, calls, archfile, cfg_exc, cpc,
                   ncalls, prev_facts, prev_options>>

\* Lines 690-698: find the total number of tests.
FindTotal ==
    /\ pc = "total" /\ exc = "none"
    /\ LET cnt == Search("", regtest_output) IN
       IF cnt /= None
       THEN /\ tot_cnt' = cnt
            /\ pc' = "FAILED"
            /\ UNCHANGED <<log, exc>>
       ELSE /\ exc' = "EasyBuildError"
            /\ log' = Append(log, LogEntry("error", "notfound_total", None, None))
            /\ UNCHANGED <<tot_cnt, pc>>
    /\ UNCHANGED <<regtest_output, ignore_regtest_fails>>
    /\ UNCHANGED normVars
    /\ UNCHANGED configVars

\* CallTestReport with a log.error that returns instead of raising.
CallTestReport_NoRaise(test_result, next) ==
    /\ pc = test_result /\ exc = "none"
    /\ LET r == test_report(test_result, regtest_output, tot_cnt, ignore_regtest_fails) IN
       /\ log' = log \o r.entries
       /\ exc' = IF r.exc = "EasyBuildError" THEN "none" ELSE r.exc
       /\ pc' = IF r.exc = "ZeroDivisionError" THEN pc ELSE next
    /\ UNCHANGED <<regtest_output, ignore_regtest_fails, tot_cnt>>
    /\ UNCHANGED <<libs_input, libs_value, prev_value, napplied>>
    /\ UNCHANGED <<facts, self, options, calls, archfile, cfg_exc, cpc,
                   ncalls, prev_facts, prev_options>>

\* One call of test_report from test_step, then on to `next`.
CallTestReport(test_result, next) ==
    /\ pc = test_result /\ exc = "none"
    /\ LET r == test_report(test_result, regtest_output, tot_cnt, ignore_regtest_fails) IN
       /\ log' = log \o r.entries
       /\ exc' = r.exc
       /\ pc' = IF r.exc = "none" THEN next ELSE pc
    /\ UNCHANGED <<regtest_output, ignore_regtest_fails, tot_cnt>>
    /\ UNCHANGED normVars
    /\ UNCHANGED configVars

ReportFailed == CallTestReport("FAILED", "WRONG")
ReportWrong == CallTestReport("WRONG", "NEW")
ReportNew == CallTestReport("NEW", "CORRECT")
ReportCorrect == CallTestReport("CORRECT", "done")

\* An optional summary line with a count up to max.
LineChoices(word, sps, max) ==
    {<<>>} \cup {<<SummaryLine(word, sp, c)>> : sp \in sps, c \in 0..max}

NoOptions == [NONE |-> <<>>]
NoText == <<"<no file>">>

ConfigIdle ==
    /\ facts = [type |-> "idle"]
    /\ self = [typearch |-> <<>>]
    /\ options = NoOptions
    /\ calls = <<>>
    /\ archfile = NoText
    /\ cfg_exc = "none"
    /\ cpc = "idle"
    /\ ncalls = 0
    /\ prev_facts = [type |-> "idle"]
    /\ prev_options = NoOptions

NormIdle ==
    /\ libs_input = <<>>
    /\ libs_value = <<>>
    /\ prev_value = <<>>
    /\ napplied = 0

InitReport ==
    /\ \E lf \in LineChoices("FAILED", {1}, MaxFailed),
          lw \in LineChoices("WRONG", {1}, MaxCount),
          lc \in LineChoices("CORRECT", {1}, MaxNew),
          ln \in LineChoices("NEW", {1}, MaxNew),
          lt \in LineChoices("", {2}, MaxCount) \cup {<<SummaryLine("", 1, 1)>>} :
            regtest_output = lf \o lw \o lc \o ln \o lt
    /\ ignore_regtest_fails \in BOOLEAN
    /\ tot_cnt = None
    /\ log = <<>>
    /\ exc = "none"
    /\ pc = "total"
    /\ NormIdle
    /\ ConfigIdle

NextReport ==
    \/ FindTotal
    \/ ReportFailed
    \/ ReportWrong
    \/ ReportNew
    \/ ReportCorrect

SpecReport == InitReport /\ [][NextReport]_vars

(***************************************************************************)
(* Properties of the regression report.                                    *)
(***************************************************************************)
Stages == <<"total", "FAILED", "WRONG", "NEW", "CORRECT", "done">>
StageIndex(p) == CHOOSE i \in 1..Len(Stages) : Stages[i] = p

\* test_report(test_result) was called and has ended.
Evaluated(test_result) ==
    \/ StageIndex(pc) > StageIndex(test_result)
    \/ pc = test_result /\ exc /= "none"

Found(test_result) == Search(test_result, regtest_output)

AllFound == \A w \in {"", "FAILED", "WRONG", "NEW", "CORRECT"} : Found(w) /= None

IsReport(e) == e.about \in {"FAILED", "WRONG", "NEW", "CORRECT"}

\* The categories a reason was logged for, in the order of the log.
ReportedCats == [i \in 1..Len(SelectSeq(log, IsReport)) |-> SelectSeq(log, IsReport)[i].about]

\* test_step ended in the log.error(logmsg) of line 725 for test_result.
RejectedBy(test_result) ==
    /\ exc = "EasyBuildError"
    /\ pc = test_result
    /\ Len(log) > 0
    /\ log[Len(log)].level = "error"
    /\ log[Len(log)].about = test_result

IsPrefix(s, t) == Len(s) <= Len(t) /\ \A i \in 1..Len(s) : s[i] = t[i]

\* C1: with ignore_regtest_fails false, Failed = 0 and Total > 0, the WRONG
\* category rejects exactly when Wrong / Total as a real ratio exceeds 0.10
\* (10 * Wrong > Total), for every 0 <= Wrong <= Total.
C1_WrongRatioIsReal ==
    (/\ ~ignore_regtest_fails
     /\ Found("FAILED") = 0
     /\ Found("WRONG") /= None
     /\ tot_cnt > 0
     /\ Found("WRONG") <= tot_cnt
     /\ Evaluated("WRONG"))
    => (RejectedBy("WRONG") <=> 10 * Found("WRONG") > tot_cnt)

\* C2: with Failed > 0 the FAILED category rejects exactly when
\* ignore_regtest_fails is false; with ignore_regtest_fails true the failed
\* count is logged as a warning and, all five counts being present and
\* Failed <= Total, the analysis runs to its end without any error.
C2_FailedRejectsUnlessIgnored ==
    (/\ tot_cnt /= None
     /\ Found("FAILED") /= None
     /\ Found("FAILED") > 0
     /\ Evaluated("FAILED"))
    => /\ RejectedBy("FAILED") <=> ~ignore_regtest_fails
       /\ ignore_regtest_fails =>
             \E i \in 1..Len(log) :
                log[i] = LogEntry("warning", "FAILED", Found("FAILED"), tot_cnt)
       /\ (ignore_regtest_fails /\ AllFound /\ Found("FAILED") <= tot_cnt) =>
             /\ exc = "none"
             /\ \A i \in 1..Len(log) : log[i].level /= "error"

C2_Witness ==
    /\ ignore_regtest_fails
    /\ AllFound
    /\ Found("FAILED") = 2
    /\ pc = "done"
    /\ exc = "none"

\* C3: without a match of the total pattern the analysis ends in the error
\* of line 697 before any category is evaluated: the total stays None, no
\* category is reported and the analysis never reaches its end.
C3_NoTotalIsFatal ==
    (Found("") = None) =>
       /\ pc = "total"
       /\ tot_cnt = None
       /\ ReportedCats = <<>>
       /\ \/ exc = "none" /\ log = <<>>
          \/ /\ exc = "EasyBuildError"
             /\ log = <<LogEntry("error", "notfound_total", None, None)>>

C3_Witness ==
    /\ Found("") = None
    /\ Found("FAILED") /= None
    /\ exc = "EasyBuildError"

\* C4: with a parsed Total of 0 the evaluation of the WRONG category ends
\* without any failure and without a rejection, for every Wrong count.
C4_ZeroTotalSkipsRatio ==
    (tot_cnt = 0 /\ Found("WRONG") /= None /\ Evaluated("WRONG")) => exc = "none"

\* C5 as stated: with all five counts present, a reason is reported for all
\* four categories, in the order FAILED, WRONG, NEW, CORRECT, whether or not
\* an earlier category rejected.
C5_AllFourAlwaysReported ==
    (AllFound /\ (pc = "done" \/ exc /= "none")) => ReportedCats = Categories

\* C5 as amended: with all five counts present the reasons are reported in
\* the order FAILED, WRONG, NEW, CORRECT up to the category that ends the
\* evaluation: a rejection is the last thing reported (after a rejection by
\* FAILED there is no WRONG, NEW or CORRECT reason), and all four reasons
\* are reported exactly when the evaluation runs to its end.
C5_ReportedUntilRejection ==
    AllFound =>
       /\ IsPrefix(ReportedCats, Categories)
       /\ \A i \in 1..Len(log) :
             log[i].level = "error" => (i = Len(log) /\ exc = "EasyBuildError")
       /\ RejectedBy("FAILED") => ReportedCats = <<"FAILED">>
       /\ (ReportedCats = Categories) <=> (pc = "done")

C5_Witness ==
    /\ AllFound
    /\ RejectedBy("FAILED")
    /\ Found("WRONG") > 0
    /\ tot_cnt > 0

(***************************************************************************)
(* Strings and the link-group normalization of configure_step.             *)
(***************************************************************************)
MaxItems == 4
MaxApply == 2

\* The two markers.  They share their head and their tail, so each is three
\* chunks: text made of these pieces can hold part of a marker.
StartGroup == <<"-Wl,--", "start", "-group">>
EndGroup == <<"-Wl,--", "end", "-group">>

\* str.replace(old, new) for a non-empty old: the matches are found from
\* the left and do not overlap.
RECURSIVE Replace(_, _, _)
Replace(s, old, new) ==
    IF Len(s) < Len(old) THEN s
    ELSE IF SubSeq(s, 1, Len(old)) = old
    THEN new \o Replace(SubSeq(s, Len(old) + 1, Len(s)), old, new)
    ELSE <<Head(s)>> \o Replace(Tail(s), old, new)

\* Line 191: both markers removed, the start marker first.
StripGroups(libs) == Replace(Replace(libs, StartGroup, <<>>), EndGroup, <<>>)

\* The wrapping of line 193 without the removal of line 191.
LinkGroupNormalize_NoStrip(libs) == StartGroup \o <<" ">> \o libs \o <<" ">> \o EndGroup

\* Lines 191-193.
LinkGroupNormalize(libs) ==
    StartGroup \o <<" ">> \o StripGroups(libs) \o <<" ">> \o EndGroup

\* Lines 191-193 applied to the current value.
NormalizeLinkGroups ==
    /\ napplied < MaxApply
    /\ prev_value' = libs_value
    /\ libs_value' = LinkGroupNormalize(libs_value)
    /\ napplied' = napplied + 1
    /\ UNCHANGED libs_input
    /\ UNCHANGED reportVars
    /\ UNCHANGED configVars

LibsItems ==
    {<<" ">>, <<"-lx">>, StartGroup, EndGroup,
     <<"-Wl,--">>, <<"start">>, <<"end">>, <<"-group">>}

RECURSIVE Flatten(_)
Flatten(ss) == IF ss = <<>> THEN <<>> ELSE Head(ss) \o Flatten(Tail(ss))

ReportIdle ==
    /\ regtest_output = <<>>
    /\ ignore_regtest_fails = FALSE
    /\ tot_cnt = None
    /\ log = <<>>
    /\ exc = "none"
    /\ pc = "idle"

InitNorm ==
    /\ \E n \in 0..MaxItems : \E items \in [1..n -> LibsItems] :
          libs_input = Flatten(items)
    /\ libs_value = libs_input
    /\ prev_value = <<>>
    /\ napplied = 0
    /\ ReportIdle
    /\ ConfigIdle

NextNorm == NormalizeLinkGroups

SpecNorm == InitNorm /\ [][NextNorm]_vars

\* The number of places of s where pat starts.
CountOcc(s, pat) ==
    Cardinality({i \in 1..Len(s) :
                   i + Len(pat) - 1 <= Len(s) /\ SubSeq(s, i, i + Len(pat) - 1) = pat})

\* s.split(): the blank-separated words of s.
RECURSIVE WordsFrom(_, _)
WordsFrom(s, cur) ==
    IF s = <<>> THEN (IF cur = <<>> THEN <<>> ELSE <<cur>>)
    ELSE IF Head(s) = " "
    THEN (IF cur = <<>> THEN <<>> ELSE <<cur>>) \o WordsFrom(Tail(s), <<>>)
    ELSE WordsFrom(Tail(s), Append(cur, Head(s)))

Words(s) == WordsFrom(s, <<>>)

\* Removing the markers of s leaves no marker: no removal joins the text
\* around it into a new marker.  So it is when every marker of s is a
\* blank-separated word.
StripsClean(s) ==
    /\ CountOcc(StripGroups(s), StartGroup) = 0
    /\ CountOcc(StripGroups(s), EndGroup) = 0

Blanks(n) == [i \in 1..n |-> " "]

\* C6 as stated: applying the normalization twice yields exactly the same
\* string as applying it once, with exactly one start and one end marker.
C6_NormalizeIdempotent ==
    (napplied = 2) =>
       /\ libs_value = prev_value
       /\ CountOcc(libs_value, StartGroup) = 1
       /\ CountOcc(libs_value, EndGroup) = 1

\* C6 as amended: for a LIBS value whose markers are removed without
\* leaving a new marker, every application yields exactly one start and
\* one end marker, and a repeated application yields the same
\* blank-separated words as the one before, not the same string: it adds the
\* two blanks that stood around the removed markers.
C6_NormalizeSameWords ==
    StripsClean(libs_input) =>
       /\ (napplied >= 1) =>
             /\ CountOcc(libs_value, StartGroup) = 1
             /\ CountOcc(libs_value, EndGroup) = 1
       /\ (napplied >= 2) =>
             /\ Words(libs_value) = Words(prev_value)
             /\ libs_value = StartGroup \o Blanks(napplied) \o StripGroups(libs_input)
                               \o Blanks(napplied) \o EndGroup
             /\ Len(libs_value) = Len(prev_value) + 2

C6_Witness ==
    /\ napplied = 2
    /\ StripsClean(libs_input)
    /\ CountOcc(libs_input, StartGroup) = 1
    /\ CountOcc(libs_input, EndGroup) = 1
    /\ \E i \in 1..Len(libs_input) : libs_input[i] = "-lx"

(***************************************************************************)
(* configure_step: the facts it reads.                                     *)
(***************************************************************************)
Sp == <<" ">>

\* A version string is its dot-separated components, each the sequence of
\* its digits: "11.1.072" is <<<<1,1>>, <<1>>, <<0,7,2>>>>.
RECURSIVE IntOf(_)
IntOf(ds) == IF ds = <<>> THEN 0 ELSE 10 * IntOf(SubSeq(ds, 1, Len(ds) - 1)) + ds[Len(ds)]

\* distutils LooseVersion of an all-numeric version: the list of its ints.
LooseVersion(v) == [i \in 1..Len(v) |-> IntOf(v[i])]

\* Python 2 list comparison a < b.
RECURSIVE ListLess(_, _)
ListLess(a, b) ==
    IF a = <<>> THEN b /= <<>>
    ELSE IF b = <<>> THEN FALSE
    ELSE IF Head(a) /= Head(b) THEN Head(a) < Head(b)
    ELSE ListLess(Tail(a), Tail(b))

\* The characters of a version string, the dot (which sorts before every
\* digit) as -1.
RECURSIVE VersionChars(_)
VersionChars(v) ==
    IF v = <<>> THEN <<>>
    ELSE IF Len(v) = 1 THEN Head(v)
    ELSE Head(v) \o <<-1>> \o VersionChars(Tail(v))

\* The versions compared as plain strings.
VersionLess_AsStrings(v, w) == ListLess(VersionChars(v), VersionChars(w))

\* LooseVersion(v) < LooseVersion(w).
VersionLess(v, w) == ListLess(LooseVersion(v), LooseVersion(w))

\* LIBXC_MIN_VERSION = '2.0.1' and the '2.2' of line 383.
LIBXC_MIN_VERSION == <<<<2>>, <<0>>, <<1>>>>
LIBXC_F90_VERSION == <<<<2>>, <<2>>>>

\* get_software_root(name): the root of a loaded module, None (<<>>) otherwise.
get_software_root(f, name) == IF name \in f.loaded THEN <<"$EBROOT", name>> ELSE <<>>

\* The environment the toolchain sets up.  LIBBLAS and LIBSCALAPACK are
\* link groups, as the toolchain writes them for static archives.
Env_MPICC == <<"mpicc">>
Env_MPIF90 == <<"mpif90">>
Env_EBVARCPPFLAGS == <<"$CPPFLAGS">>
Env_EBVARLDFLAGS == <<"$LDFLAGS">>
Env_LIBS == <<"-lm">>
Env_LIBBLAS ==
    <<"-L$EBROOTBLAS/", "gfortran64", "/lib", " ">> \o StartGroup
        \o <<" ", "-lblas", " ">> \o EndGroup
Env_LIBSCALAPACK == StartGroup \o <<" ", "-lscalapack", " ">> \o EndGroup
Env_LIBFFT == <<"-lfftw3xf">>
Env_LIBLAPACK_MT == <<"-llapack_mt">>

\* toolchain.get_flag('openmp') of the two compiler families.
OpenmpFlag(f) == IF f.comp_fam = "Intel" THEN <<"-openmp">> ELSE <<"-fopenmp">>

\* The MPI families of mpi_spec_by_fam and the module names of mpi2libs.
MPI2Families == {"MPICH", "MPICH2", "MVAPICH2", "OpenMPI", "IntelMPI"}
MPI2Libs == {"impi", "MVAPICH2", "OpenMPI", "MPICH2", "MPICH"}

\* ' '.join(strings)
RECURSIVE Join(_)
Join(ss) ==
    IF ss = <<>> THEN <<>>
    ELSE IF Len(ss) = 1 THEN Head(ss)
    ELSE Head(ss) \o Sp \o Join(Tail(ss))

\* The dict operations of Python.
Put(o, k, v) == [x \in (DOMAIN o) \cup {k} |-> IF x = k THEN v ELSE o[x]]
Add(o, k, v) == Put(o, k, o[k] \o v)

\* The messages of the log.error calls of configure_step.
ErrMPI2 == "CP2K needs MPI-2, no known MPI-2 supporting library loaded?"
ErrLibint == "Don't know how to handle libint version"
ErrLibxc == "CP2K only works with libxc v2.0.1 (or later)"
ErrType == "Unknown build type specified"
ErrModinc == "Don't know how to prepare modinc, IMKL not found"
ErrCompiler == "Don't know how to tweak configuration for compiler used."

\* The state of a configure_step under way: the error raised so far, the
\* instance, the options dict and the fragments applied.
Raise(st, msg) == [st EXCEPT !.err = msg]

\* __init__ (lines 65-84) and the defaults of extra_options.
InitialSelf ==
    [typearch |-> <<>>,
     compilerISO_C_BINDING |-> TRUE,
     debug |-> <<>>,
     fpic |-> <<>>,
     libsmm |-> <<>>,
     modincpath |-> <<>>,
     openmp |-> <<>>,
     make_instructions |-> <<>>,
     extracflags |-> <<>>,
     extradflags |-> <<>>]

\* The MPI-2 test scanning the loaded modules also when the toolchain names
\* an MPI family.
mpi2_ScanAlways(f) ==
    \/ f.mpi_family \in MPI2Families
    \/ \E mpi2lib \in MPI2Libs : get_software_root(f, mpi2lib) /= <<>>

\* Lines 274-300: is an MPI-2 capable MPI library in use?
mpi2(f) ==
    IF f.mpi_family /= "None"
    THEN f.mpi_family \in MPI2Families
    ELSE \E mpi2lib \in MPI2Libs : get_software_root(f, mpi2lib) /= <<>>

\* CommonOptions with -D__SCALAPACK missing from the DFLAGS it starts from.
CommonOptions_NoScalapack(slf, f) ==
    [CC |-> Env_MPICC,
     CPP |-> <<>>,
     FC |-> Env_MPIF90 \o Sp \o slf.openmp,
     LD |-> Env_MPIF90 \o Sp \o slf.openmp,
     AR |-> <<"ar", " ", "-r">>,
     CPPFLAGS |-> <<>>,
     FPIC |-> slf.fpic,
     DEBUG |-> slf.debug,
     FCFLAGS |-> IF f.typeopt THEN <<"$(FCFLAGSOPT)">> ELSE <<"$(FCFLAGSNOOPT)">>,
     FCFLAGS2 |-> IF f.typeopt THEN <<"$(FCFLAGSOPT2)">> ELSE <<"$(FCFLAGSNOOPT)">>,
     CFLAGS |-> Sp \o Env_EBVARCPPFLAGS \o Sp \o Env_EBVARLDFLAGS
                  \o <<" ", "$(FPIC)", " ", "$(DEBUG)", " ">> \o slf.extracflags \o Sp,
     DFLAGS |-> <<" ", "-D__parallel", " ", "-D__BLACS",
                  " ", "-D__FFTSG", " ">> \o slf.extradflags,
     LIBS |-> Env_LIBS,
     FCFLAGSNOOPT |-> <<"$(DFLAGS)", " ", "$(CFLAGS)", " ", "-O0", " ", " ",
                        "$(FREE)", " ", "$(FPIC)", " ", "$(DEBUG)">>,
     FCFLAGSOPT |-> <<"-O2", " ", "$(FREE)", " ", "$(SAFE)", " ", "$(FPIC)", " ", "$(DEBUG)">>,
     FCFLAGSOPT2 |-> <<"-O1", " ", "$(FREE)", " ", "$(SAFE)", " ", "$(FPIC)", " ", "$(DEBUG)">>]

\* Lines 302-326: the options dict of configure_common.
CommonOptions(slf, f) ==
    [CC |-> Env_MPICC,
     CPP |-> <<>>,
     FC |-> Env_MPIF90 \o Sp \o slf.openmp,
     LD |-> Env_MPIF90 \o Sp \o slf.openmp,
     AR |-> <<"ar", " ", "-r">>,
     CPPFLAGS |-> <<>>,
     FPIC |-> slf.fpic,
     DEBUG |-> slf.debug,
     FCFLAGS |-> IF f.typeopt THEN <<"$(FCFLAGSOPT)">> ELSE <<"$(FCFLAGSNOOPT)">>,
     FCFLAGS2 |-> IF f.typeopt THEN <<"$(FCFLAGSOPT2)">> ELSE <<"$(FCFLAGSNOOPT)">>,
     CFLAGS |-> Sp \o Env_EBVARCPPFLAGS \o Sp \o Env_EBVARLDFLAGS
                  \o <<" ", "$(FPIC)", " ", "$(DEBUG)", " ">> \o slf.extracflags \o Sp,
     DFLAGS |-> <<" ", "-D__parallel", " ", "-D__BLACS", " ", "-D__SCALAPACK",
                  " ", "-D__FFTSG", " ">> \o slf.extradflags,
     LIBS |-> Env_LIBS,
     FCFLAGSNOOPT |-> <<"$(DFLAGS)", " ", "$(CFLAGS)", " ", "-O0", " ", " ",
                        "$(FREE)", " ", "$(FPIC)", " ", "$(DEBUG)">>,
     FCFLAGSOPT |-> <<"-O2", " ", "$(FREE)", " ", "$(SAFE)", " ", "$(FPIC)", " ", "$(DEBUG)">>,
     FCFLAGSOPT2 |-> <<"-O1", " ", "$(FREE)", " ", "$(SAFE)", " ", "$(FPIC)", " ", "$(DEBUG)">>]

\* LibintLibs taking every major version but '1' for '2'.
LibintLibs_ElseTwo(version) ==
    IF Head(version) = <<1>>
    THEN <<"$(LIBINTLIB)/libderiv.a", " ", "$(LIBINTLIB)/libint.a", " ",
           "$(LIBINTLIB)/libr12.a">>
    ELSE <<"$(LIBINTLIB)/libint2.a">>

\* The LibInt archives by major version (lines 359-365), <<>> for a major
\* version the code does not know.  The major version is compared as text.
LibintLibs(version) ==
    IF Head(version) = <<1>>
    THEN <<"$(LIBINTLIB)/libderiv.a", " ", "$(LIBINTLIB)/libint.a", " ",
           "$(LIBINTLIB)/libr12.a">>
    ELSE IF Head(version) = <<2>>
    THEN <<"$(LIBINTLIB)/libint2.a">>
    ELSE <<>>

(***************************************************************************)
(* configure_step: the fragments.  Each takes and returns the state of the *)
(* call: st.err ("none" until a log.error raises), st.self, st.options and *)
(* st.calls.                                                               *)
(***************************************************************************)
\* Lines 328-373 of configure_common.
libint_fragment(st, f) ==
    LET libint == get_software_root(f, "LibInt")
        o1 == Add(st.options, "DFLAGS", <<" ", "-D__LIBINT">>)
        o2 == IF st.self.compilerISO_C_BINDING THEN o1
              ELSE Add(o1, "DFLAGS", <<" ", "-D__HAS_NO_ISO_C_BINDING">>)
        libint_wrapper == IF st.self.compilerISO_C_BINDING THEN <<>>
                          ELSE <<"$LIBINTTOOLS", "/libint_cpp_wrapper.o">>
        libint_libs == LibintLibs(f.libint_version)
        o3 == Put(o2, "LIBINTLIB", libint \o <<"/lib">>)
        o4 == Add(o3, "LIBS", Sp \o libint_libs \o <<" ", "-lstdc++", " ">> \o libint_wrapper)
    IN  IF st.err /= "none" \/ libint = <<>> THEN st
        ELSE IF libint_libs = <<>> THEN Raise(st, ErrLibint)
        ELSE [st EXCEPT !.options = o4, !.calls = Append(@, "LibInt")]

\* Lines 376-389 of configure_common.
libxc_fragment(st, f) ==
    LET libxc == get_software_root(f, "libxc")
        cur_libxc_version == f.libxc_version
        o1 == Add(st.options, "DFLAGS", <<" ", "-D__LIBXC2">>)
        o2 == IF ~VersionLess(cur_libxc_version, LIBXC_F90_VERSION)
              THEN Add(o1, "LIBS", <<" ", "-L">> \o libxc \o <<"/lib", " ", "-lxcf90", " ", "-lxc">>)
              ELSE Add(o1, "LIBS", <<" ", "-L">> \o libxc \o <<"/lib", " ", "-lxc">>)
    IN  IF st.err /= "none" \/ libxc = <<>> THEN st
        ELSE IF VersionLess(cur_libxc_version, LIBXC_MIN_VERSION)
        THEN Raise(st, ErrLibxc)
        ELSE [st EXCEPT !.options = o2, !.calls = Append(@, "libxc")]

\* configure_common with the MPI-2 test of line 299 dropped.
configure_common_NoMpiGate(st, f) ==
    LET slf == IF f.type = "psmp" THEN [st.self EXCEPT !.openmp = OpenmpFlag(f)] ELSE st.self
        st1 == [st EXCEPT !.self = slf]
        st2 == [st1 EXCEPT !.options = CommonOptions(slf, f), !.calls = Append(@, "common")]
    IN  libxc_fragment(libint_fragment(st2, f), f)

\* configure_common (lines 257-391).
configure_common(st, f) ==
    LET slf == IF f.type = "psmp" THEN [st.self EXCEPT !.openmp = OpenmpFlag(f)] ELSE st.self
        st1 == [st EXCEPT !.self = slf]
        st2 == [st1 EXCEPT !.options = CommonOptions(slf, f), !.calls = Append(@, "common")]
    IN  IF ~mpi2(f)
        THEN Raise(st1, ErrMPI2)
        ELSE libxc_fragment(libint_fragment(st2, f), f)

Rule_et_coupling == <<"et_coupling.o: et_coupling.F ; $(FC) -c $(FCFLAGS2) $<">>
Rule_qs_vxc_atom == <<"qs_vxc_atom.o: qs_vxc_atom.F ; $(FC) -c $(FCFLAGS2) $<">>

V_11 == <<<<1, 1>>>>
V_11_1_072 == <<<<1, 1>>, <<1>>, <<0, 7, 2>>>>
V_2011 == <<<<2, 0, 1, 1>>>>
V_2011_8 == <<<<2, 0, 1, 1>>, <<8>>>>
V_2012 == <<<<2, 0, 1, 2>>>>

\* The gate on the ifort version taking every 11.1 for 11.1.072 or later.
ifort_gate_Any_11_1(st, f) ==
    LET ifortver == f.ifort_version IN
    IF ~VersionLess(ifortver, V_2011) /\ VersionLess(ifortver, V_2012)
    THEN IF ~VersionLess(ifortver, V_2011_8)
         THEN [st EXCEPT !.self.make_instructions = @ \o Rule_et_coupling \o Rule_qs_vxc_atom]
         ELSE Raise(st, "CP2K won't build correctly with the Intel v12 compilers prior to v2011.8")
    ELSE IF ~VersionLess(ifortver, V_11)
    THEN IF ~VersionLess(ifortver, <<<<1, 1>>, <<1>>>>)
         THEN [st EXCEPT !.self.make_instructions = @ \o Rule_qs_vxc_atom]
         ELSE Raise(st, "CP2K won't build correctly with the Intel v11 compilers prior to v11.1.072")
    ELSE Raise(st, "Intel compilers version not supported yet.")

\* Lines 429-451 of configure_intel_based: the gate on the ifort version.
ifort_gate(st, f) ==
    LET ifortver == f.ifort_version IN
    IF ~VersionLess(ifortver, V_2011) /\ VersionLess(ifortver, V_2012)
    THEN IF ~VersionLess(ifortver, V_2011_8)
         THEN [st EXCEPT !.self.make_instructions = @ \o Rule_et_coupling \o Rule_qs_vxc_atom]
         ELSE Raise(st, "CP2K won't build correctly with the Intel v12 compilers prior to v2011.8")
    ELSE IF ~VersionLess(ifortver, V_11)
    THEN IF ~VersionLess(ifortver, V_11_1_072)
         THEN [st EXCEPT !.self.make_instructions = @ \o Rule_qs_vxc_atom]
         ELSE Raise(st, "CP2K won't build correctly with the Intel v11 compilers prior to v11.1.072")
    ELSE Raise(st, "Intel compilers version not supported yet.")

\* configure_intel_based (lines 393-453).
configure_intel_based(st, f) ==
    LET c == configure_common(st, f)
        extrainc == IF c.self.modincpath /= <<>> THEN <<"-I">> \o c.self.modincpath ELSE <<>>
        o1 == Put(Put(Put(Put(Put(c.options,
                 "FREE", <<"-fpp", " ", "-free">>),
                 "SAFE", <<"-assume", " ", "protect_parens", " ", "-no-unroll-aggressive">>),
                 "INCFLAGS", <<"$(DFLAGS)", " ", "-I$(INTEL_INC)", " ", "-I$(INTEL_INCF)", " ">>
                               \o extrainc),
                 "LDFLAGS", <<"$(INCFLAGS)", " ", "-i-static">>),
                 "OBJECTS_ARCHITECTURE", <<"machine_intel.o">>)
        o2 == Add(o1, "DFLAGS", <<" ", "-D__INTEL">>)
        optarch == IF f.optarch THEN <<"-xHOST">> ELSE <<>>
        o3 == Add(o2, "FCFLAGSOPT",
                  <<" ", "$(INCFLAGS)", " ">> \o optarch \o <<" ", "-heap-arrays", " ", "64">>)
        o4 == Add(o3, "FCFLAGSOPT2",
                  <<" ", "$(INCFLAGS)", " ">> \o optarch \o <<" ", "-heap-arrays", " ", "64">>)
    IN  IF c.err /= "none" THEN c
        ELSE ifort_gate([c EXCEPT !.options = o4, !.calls = Append(@, "intel")], f)

\* configure_GCC_based adding -march=native whatever optarch says.
configure_GCC_based_AlwaysNative(st, f) ==
    LET c == configure_common(st, f)
        o1 == Put(Put(Put(c.options,
                 "FREE", <<"-ffree-form", " ", "-ffree-line-length-none">>),
                 "LDFLAGS", <<"$(FCFLAGS)">>),
                 "OBJECTS_ARCHITECTURE", <<"machine_gfortran.o">>)
        o2 == Add(o1, "DFLAGS", <<" ", "-D__GFORTRAN">>)
        optarch == <<"-march=native">>
        o3 == Add(o2, "FCFLAGSOPT", <<" ", "$(DFLAGS)", " ", "$(CFLAGS)", " ">> \o optarch
                                      \o <<" ", "-fmax-stack-var-size=32768">>)
        o4 == Add(o3, "FCFLAGSOPT2", <<" ", "$(DFLAGS)", " ", "$(CFLAGS)", " ">> \o optarch)
    IN  IF c.err /= "none" THEN c
        ELSE [c EXCEPT !.options = o4, !.calls = Append(@, "GCC")]

\* configure_GCC_based (lines 455-476).
configure_GCC_based(st, f) ==
    LET c == configure_common(st, f)
        o1 == Put(Put(Put(c.options,
                 "FREE", <<"-ffree-form", " ", "-ffree-line-length-none">>),
                 "LDFLAGS", <<"$(FCFLAGS)">>),
                 "OBJECTS_ARCHITECTURE", <<"machine_gfortran.o">>)
        o2 == Add(o1, "DFLAGS", <<" ", "-D__GFORTRAN">>)
        optarch == IF f.optarch THEN <<"-march=native">> ELSE <<>>
        o3 == Add(o2, "FCFLAGSOPT", <<" ", "$(DFLAGS)", " ", "$(CFLAGS)", " ">> \o optarch
                                      \o <<" ", "-fmax-stack-var-size=32768">>)
        o4 == Add(o3, "FCFLAGSOPT2", <<" ", "$(DFLAGS)", " ", "$(CFLAGS)", " ">> \o optarch)
    IN  IF c.err /= "none" THEN c
        ELSE [c EXCEPT !.options = o4, !.calls = Append(@, "GCC")]

\* configure_ACML (lines 478-493).
configure_ACML(st, f) ==
    LET openmp_suffix == IF st.self.openmp /= <<>> THEN <<"_mp">> ELSE <<>>
        o1 == Put(st.options, "ACML_INC",
                  get_software_root(f, "ACML") \o <<"/", "gfortran64">> \o openmp_suffix
                     \o <<"/include">>)
        o2 == Add(o1, "CFLAGS", <<" ", "-I$(ACML_INC)", " ", "-I$(FFTW_INC)">>)
        o3 == Add(o2, "DFLAGS", <<" ", "-D__FFTACML">>)
        blas == Replace(Env_LIBBLAS, <<"gfortran64">>, <<"gfortran64">> \o openmp_suffix)
        o4 == Add(o3, "LIBS", Sp \o st.self.libsmm \o Sp \o Env_LIBSCALAPACK \o Sp \o blas)
    IN  [st EXCEPT !.options = o4, !.calls = Append(@, "ACML")]

\* configure_BLAS_lib (lines 495-500).
configure_BLAS_lib(st, f) ==
    [st EXCEPT !.options = Add(@, "LIBS", Sp \o st.self.libsmm \o Sp \o Env_LIBBLAS),
               !.calls = Append(@, "BLAS_lib")]

\* configure_MKL putting LIBFFT behind the LIBS it finds, not in front.
configure_MKL_AppendsFFT(st, f) ==
    LET o1 == Put(st.options, "INTEL_INC", <<"$(MKLROOT)/include">>)
        o2 == Add(o1, "DFLAGS", <<" ", "-D__FFTW3">>)
        extra == IF st.self.modincpath /= <<>> THEN <<"-I">> \o st.self.modincpath ELSE <<>>
        o3 == Add(o2, "CFLAGS", <<" ", "-I$(INTEL_INC)", " ">> \o extra
                                  \o <<" ", "$(FPIC)", " ", "$(DEBUG)">>)
        o4 == Add(o3, "LIBS", Sp \o st.self.libsmm \o Sp \o Env_LIBSCALAPACK)
        o5 == Put(o4, "INTEL_INCF", <<"$(INTEL_INC)/fftw">>)
        o6 == Add(o5, "DFLAGS", <<" ", "-D__FFTMKL">>)
        o7 == Add(o6, "CFLAGS", <<" ", "-I$(INTEL_INCF)">>)
        o8 == Put(o7, "LIBS", o7["LIBS"] \o Sp \o Env_LIBFFT)
    IN  [st EXCEPT !.options = IF get_software_root(f, "FFTW") = <<>> THEN o8 ELSE o4,
                   !.calls = Append(@, "MKL")]

\* configure_MKL (lines 502-531).
configure_MKL(st, f) ==
    LET o1 == Put(st.options, "INTEL_INC", <<"$(MKLROOT)/include">>)
        o2 == Add(o1, "DFLAGS", <<" ", "-D__FFTW3">>)
        extra == IF st.self.modincpath /= <<>> THEN <<"-I">> \o st.self.modincpath ELSE <<>>
        o3 == Add(o2, "CFLAGS", <<" ", "-I$(INTEL_INC)", " ">> \o extra
                                  \o <<" ", "$(FPIC)", " ", "$(DEBUG)">>)
        o4 == Add(o3, "LIBS", Sp \o st.self.libsmm \o Sp \o Env_LIBSCALAPACK)
        o5 == Put(o4, "INTEL_INCF", <<"$(INTEL_INC)/fftw">>)
        o6 == Add(o5, "DFLAGS", <<" ", "-D__FFTMKL">>)
        o7 == Add(o6, "CFLAGS", <<" ", "-I$(INTEL_INCF)">>)
        o8 == Put(o7, "LIBS", Env_LIBFFT \o Sp \o o7["LIBS"])
    IN  [st EXCEPT !.options = IF get_software_root(f, "FFTW") = <<>> THEN o8 ELSE o4,
                   !.calls = Append(@, "MKL")]

\* configure_FFTW (lines 533-548).
configure_FFTW(st, f) ==
    LET fftw == get_software_root(f, "FFTW")
        o1 == Put(Put(Put(st.options,
                 "FFTW_INC", fftw \o <<"/include">>),
                 "FFTW3INC", fftw \o <<"/include">>),
                 "FFTW3LIB", fftw \o <<"/lib">>)
        o2 == Add(o1, "DFLAGS", <<" ", "-D__FFTW3">>)
        o3 == Add(o2, "LIBS", <<" ", "-L">> \o fftw \o <<"/lib", " ", "-lfftw3">>)
    IN  [st EXCEPT !.options = o3, !.calls = Append(@, "FFTW")]

\* configure_LAPACK (lines 550-555).
configure_LAPACK(st, f) ==
    [st EXCEPT !.options = Add(@, "LIBS", Sp \o Env_LIBLAPACK_MT),
               !.calls = Append(@, "LAPACK")]

\* configure_ScaLAPACK (lines 557-562).
configure_ScaLAPACK(st, f) ==
    [st EXCEPT !.options = Add(@, "LIBS", Sp \o Env_LIBSCALAPACK),
               !.calls = Append(@, "ScaLAPACK")]

\* Lines 173-179 with the elif/else of the BLAS choice turned into
\* independent tests.
blas_fragment_NotExclusive(st, f) ==
    LET a == IF get_software_root(f, "IMKL") /= <<>> THEN configure_MKL(st, f) ELSE st
        b == IF get_software_root(f, "ACML") /= <<>> THEN configure_ACML(a, f) ELSE a
    IN  IF get_software_root(f, "IMKL") = <<>> /\ get_software_root(f, "ACML") = <<>>
        THEN configure_BLAS_lib(b, f)
        ELSE b

\* Lines 173-179: the BLAS provider.
blas_fragment(st, f) ==
    IF get_software_root(f, "IMKL") /= <<>> THEN configure_MKL(st, f)
    ELSE IF get_software_root(f, "ACML") /= <<>> THEN configure_ACML(st, f)
    ELSE configure_BLAS_lib(st, f)

\* Lines 181-188: FFTW, LAPACK and ScaLAPACK, each if loaded.
library_fragments(st, f) ==
    LET a == IF get_software_root(f, "FFTW") /= <<>> THEN configure_FFTW(st, f) ELSE st
        b == IF get_software_root(f, "LAPACK") /= <<>> THEN configure_LAPACK(a, f) ELSE a
    IN  IF get_software_root(f, "ScaLAPACK") /= <<>> THEN configure_ScaLAPACK(b, f) ELSE b

\* Lines 144-152: libsmm support.  A libsmm library is named by the chunks
\* of its basename without extension, <<"lib", "smm_dnn">>.
libsmm_support(slf, f) ==
    LET libsmm == get_software_root(f, "libsmm")
        libsmms == [i \in 1..Len(f.libsmm_files) |->
                       libsmm \o <<"/lib/">> \o f.libsmm_files[i] \o <<".a">>]
        dfs == [i \in 1..Len(f.libsmm_files) |->
                   Replace(f.libsmm_files[i], <<"lib">>, <<"-D__HAS_">>)]
        moredflags == Sp \o Join(dfs)
    IN  IF libsmm = <<>> THEN slf
        ELSE [slf EXCEPT !.extradflags = @ \o Sp \o moredflags \o Sp,
                         !.libsmm = Join(libsmms)]

\* Lines 164-171: the fragment of the compiler family.
family_fragment(st, f) ==
    IF f.comp_fam = "Intel" THEN configure_intel_based(st, f)
    ELSE IF f.comp_fam = "GCC" THEN configure_GCC_based(st, f)
    ELSE Raise(st, ErrCompiler)

\* configure_step up to the options that are written (lines 111-193).
configure_step(slf, f) ==
    LET s1 == [slf EXCEPT !.debug = IF f.debug THEN <<"-g">> ELSE @,
                          !.fpic = IF f.pic THEN <<"-fPIC">> ELSE @]
        s2 == libsmm_support(s1, f)
        \* prepmodinc (lines 207-255) returns its directory, with IMKL only
        s3 == IF f.modinc THEN [s2 EXCEPT !.modincpath = <<"$BUILDDIR/modinc">>] ELSE s2
        s4 == [s3 EXCEPT !.typearch = <<"Linux-x86-64-", "$TOOLCHAIN">>,
                         !.make_instructions = <<>>]
        fam == family_fragment([err |-> "none", self |-> s4, options |-> NoOptions,
                                calls |-> <<>>], f)
        libs == library_fragments(blas_fragment(fam, f), f)
    IN  IF f.type \notin {"popt", "psmp"}
        THEN [err |-> ErrType, self |-> slf,
              options |-> NoOptions, calls |-> <<>>]
        ELSE IF f.modinc /\ get_software_root(f, "IMKL") = <<>>
        THEN [err |-> ErrModinc, self |-> s2,
              options |-> NoOptions, calls |-> <<>>]
        ELSE IF fam.err /= "none" THEN fam
        ELSE [libs EXCEPT !.options = Put(@, "LIBS", LinkGroupNormalize(libs.options["LIBS"]))]

\* The keys of the options dict in the order in which the code first sets
\* them.
OptionKeys ==
    <<"CC", "CPP", "FC", "LD", "AR", "CPPFLAGS", "FPIC", "DEBUG", "FCFLAGS", "FCFLAGS2",
      "CFLAGS", "DFLAGS", "LIBS", "FCFLAGSNOOPT", "FCFLAGSOPT", "FCFLAGSOPT2",
      "LIBINTLIB", "FREE", "SAFE", "INCFLAGS", "LDFLAGS", "OBJECTS_ARCHITECTURE",
      "INTEL_INC", "INTEL_INCF", "ACML_INC", "FFTW_INC", "FFTW3INC", "FFTW3LIB">>

Reverse(q) == [i \in 1..Len(q) |-> q[Len(q) + 1 - i]]

\* options.iteritems() of a Python 2 dict visits the keys in an order the
\* language leaves open; two orders are explored.
DictOrders(o) ==
    LET present(k) == k \in DOMAIN o
        q == SelectSeq(OptionKeys, present)
    IN  {q, Reverse(q)}

MakefileHeader ==
    <<"# Makefile generated by CP2K._generateMakefile, items might appear in random order\n">>

\* MakefileLines leaving out the directives whose value is empty.
RECURSIVE MakefileLines_SkipEmpty(_, _)
MakefileLines_SkipEmpty(o, order) ==
    IF order = <<>> THEN <<>>
    ELSE (IF o[Head(order)] = <<>> THEN <<>>
          ELSE <<Head(order), " ", "=", " ">> \o o[Head(order)] \o <<"\n">>)
            \o MakefileLines_SkipEmpty(o, Tail(order))

RECURSIVE MakefileLines(_, _)
MakefileLines(o, order) ==
    IF order = <<>> THEN <<>>
    ELSE <<Head(order), " ", "=", " ">> \o o[Head(order)] \o <<"\n">>
            \o MakefileLines(o, Tail(order))

\* _generate_makefile (lines 103-109), the keys visited in `order`.
generate_makefile(o, make_instructions, order) ==
    MakefileHeader \o MakefileLines(o, order) \o make_instructions

\* configure_step, from its start to the arch file written or the error.
ConfigureStep ==
    /\ cpc = "ready"
    /\ LET r == configure_step(self, facts) IN
       /\ self' = r.self
       /\ calls' = r.calls
       /\ cfg_exc' = r.err
       /\ IF r.err = "none"
          THEN /\ options' = r.options
               /\ \E order \in DictOrders(r.options) :
                     archfile' = generate_makefile(r.options, r.self.make_instructions, order)
               /\ cpc' = "done"
          ELSE /\ options' = NoOptions
               /\ archfile' = NoText
               /\ cpc' = "failed"
    /\ ncalls' = ncalls + 1
    /\ UNCHANGED <<facts, prev_facts, prev_options>>
    /\ UNCHANGED reportVars
    /\ UNCHANGED normVars

(***************************************************************************)
(* The facts that are explored.                                            *)
(***************************************************************************)
MaxSmm == 2

SmmNames == <<<<"lib", "smm_dnn">>, <<"lib", "smm_snn">>, <<"lib", "smm_znn">>,
              <<"lib", "smm_cnn">>>>

IfortVersions ==
    {<<<<1, 0>>, <<1>>>>, <<<<1, 1>>, <<1>>, <<0, 6, 9>>>>, <<<<1, 1>>, <<1>>, <<0, 7, 2>>>>,
     <<<<1, 2>>, <<1>>>>, <<<<2, 0, 1, 1>>, <<6>>>>, <<<<2, 0, 1, 1>>, <<1, 0>>>>,
     <<<<2, 0, 1, 3>>, <<3>>>>}

LibintVersions == {<<<<1>>, <<1>>, <<4>>>>, <<<<2>>, <<0>>, <<3>>>>, <<<<3>>, <<0>>>>}

LibxcVersions ==
    {<<<<2>>, <<0>>>>, <<<<2>>, <<0>>, <<1>>>>, <<<<2>>, <<1>>>>, <<<<2>>, <<2>>>>,
     <<<<2>>, <<1, 0>>>>, <<<<1, 0>>, <<0>>>>}

NoVersion == <<>>

BlasAndLibs == {"IMKL", "ACML", "FFTW", "LAPACK", "ScaLAPACK", "libsmm"}

Fact(type, comp, ifort, mpifam, loaded, libint, libxc, optarch, plain, modinc) ==
    [type |-> type, typeopt |-> plain, debug |-> ~plain, pic |-> ~plain,
     optarch |-> optarch, comp_fam |-> comp, ifort_version |-> ifort,
     mpi_family |-> mpifam, loaded |-> loaded,
     libint_version |-> libint, libxc_version |-> libxc,
     modinc |-> modinc,
     libsmm_files |-> IF "libsmm" \in loaded THEN SubSeq(SmmNames, 1, MaxSmm) ELSE <<>>]

Compilers ==
    {<<"GCC", NoVersion>>, <<"Clang", NoVersion>>} \cup {<<"Intel", v>> : v \in IfortVersions}

\* Every build type, compiler and MPI setting, with nothing or everything
\* else loaded.
GateFacts ==
    {Fact(type, c[1], c[2], mpifam, mpilib \cup rest[1], rest[2], rest[3], optarch, plain, modinc) :
        type \in {"popt", "psmp", "pdbg"},
        c \in Compilers,
        mpifam \in {"None", "OpenMPI", "QLogicMPI"},
        mpilib \in {{}, {"OpenMPI"}},
        rest \in {<<{}, NoVersion, NoVersion>>,
                  <<BlasAndLibs \cup {"LibInt", "libxc"},
                    <<<<1>>, <<1>>, <<4>>>>, <<<<2>>, <<2>>>> >>},
        optarch \in BOOLEAN,
        plain \in BOOLEAN,
        modinc \in BOOLEAN}

\* Every set of libraries and every library version, for the two compiler
\* families with an MPI-2 toolchain.
LibraryFacts ==
    {Fact(type, c[1], c[2], "OpenMPI", libs \cup li[1] \cup lx[1], li[2], lx[2], FALSE, TRUE, modinc) :
        type \in {"popt", "psmp"},
        c \in {<<"GCC", NoVersion>>, <<"Intel", <<<<2, 0, 1, 1>>, <<1, 0>>>> >>},
        libs \in SUBSET BlasAndLibs,
        li \in {<<{}, NoVersion>>} \cup {<<{"LibInt"}, v>> : v \in LibintVersions},
        lx \in {<<{}, NoVersion>>} \cup {<<{"libxc"}, v>> : v \in LibxcVersions},
        modinc \in BOOLEAN}

Facts == GateFacts \cup LibraryFacts

\* The facts of repeated calls: every build type, the two compiler
\* families, a debug and a plain toolchain, with nothing, libsmm or ACML
\* loaded.
AgainFacts ==
    {Fact(type, c[1], c[2], "OpenMPI", loaded, NoVersion, NoVersion, FALSE, plain, FALSE) :
        type \in {"popt", "psmp", "pdbg"},
        c \in {<<"GCC", NoVersion>>, <<"Intel", <<<<2, 0, 1, 1>>, <<1, 0>>>> >>},
        loaded \in {{}, {"libsmm"}, {"ACML"}},
        plain \in BOOLEAN}

InitConfig ==
    /\ facts \in Facts
    /\ self = InitialSelf
    /\ options = NoOptions
    /\ calls = <<>>
    /\ archfile = NoText
    /\ cfg_exc = "none"
    /\ cpc = "ready"
    /\ ncalls = 0
    /\ prev_facts = [type |-> "none"]
    /\ prev_options = NoOptions
    /\ ReportIdle
    /\ NormIdle

NextConfig == ConfigureStep

SpecConfig == InitConfig /\ [][NextConfig]_vars

(***************************************************************************)
(* configure_step called again on the same instance, as the framework does *)
(* when it iterates over builds.                                           *)
(***************************************************************************)
MaxCalls == 2

\* A call of configure_step, the first or a later one: new facts, the
\* instance as __init__ or the call before left it.
ConfigureStepAgain ==
    /\ cpc \in {"ready", "done", "failed"}
    /\ ncalls < MaxCalls
    /\ \E f \in AgainFacts :
         LET r == configure_step(self, f) IN
         /\ facts' = f
         /\ prev_facts' = facts
         /\ prev_options' = options
         /\ self' = r.self
         /\ calls' = r.calls
         /\ cfg_exc' = r.err
         /\ IF r.err = "none"
            THEN /\ options' = r.options
                 /\ \E order \in DictOrders(r.options) :
                       archfile' = generate_makefile(r.options, r.self.make_instructions, order)
                 /\ cpc' = "done"
            ELSE /\ options' = NoOptions
                 /\ archfile' = NoText
                 /\ cpc' = "failed"
    /\ ncalls' = ncalls + 1
    /\ UNCHANGED reportVars
    /\ UNCHANGED normVars

InitAgain ==
    /\ facts = [type |-> "none"]
    /\ self = InitialSelf
    /\ options = NoOptions
    /\ calls = <<>>
    /\ archfile = NoText
    /\ cfg_exc = "none"
    /\ cpc = "ready"
    /\ ncalls = 0
    /\ prev_facts = [type |-> "none"]
    /\ prev_options = NoOptions
    /\ ReportIdle
    /\ NormIdle

NextAgain == ConfigureStepAgain

SpecAgain == InitAgain /\ [][NextAgain]_vars

(***************************************************************************)
(* Properties of configure_step.                                           *)
(***************************************************************************)
CountChunk(str, c) == Cardinality({i \in 1..Len(str) : str[i] = c})

Loaded(name) == name \in facts.loaded

CountCalls(names) == Cardinality({i \in 1..Len(calls) : calls[i] \in names})

\* The facts let configure_step reach configure_common.
ReachesCommon ==
    /\ facts.type \in {"popt", "psmp"}
    /\ facts.comp_fam \in {"Intel", "GCC"}
    /\ ~(facts.modinc /\ ~Loaded("IMKL"))

\* C7: exactly one of configure_MKL, configure_ACML and configure_BLAS_lib
\* is applied: MKL if IMKL is loaded (also with ACML), else ACML if ACML is
\* loaded, else the generic one; the options never hold the directives of
\* two providers.
C7_OneBlasProvider ==
    (cpc = "done") =>
       /\ CountCalls({"MKL", "ACML", "BLAS_lib"}) = 1
       /\ Loaded("IMKL") =>
             /\ CountCalls({"MKL"}) = 1
             /\ "INTEL_INC" \in DOMAIN options
             /\ CountChunk(options["CFLAGS"], "-I$(INTEL_INC)") = 1
             /\ "ACML_INC" \notin DOMAIN options
             /\ CountChunk(options["DFLAGS"], "-D__FFTACML") = 0
             /\ CountChunk(options["CFLAGS"], "-I$(ACML_INC)") = 0
             /\ CountChunk(options["LIBS"], "-lblas") = 0
       /\ (~Loaded("IMKL") /\ Loaded("ACML")) =>
             /\ CountCalls({"ACML"}) = 1
             /\ "ACML_INC" \in DOMAIN options
             /\ CountChunk(options["DFLAGS"], "-D__FFTACML") = 1
             /\ "INTEL_INC" \notin DOMAIN options
             /\ CountChunk(options["DFLAGS"], "-D__FFTMKL") = 0
             /\ CountChunk(options["CFLAGS"], "-I$(INTEL_INC)") = 0
             /\ CountChunk(options["LIBS"], "-lblas") = 1
       /\ (~Loaded("IMKL") /\ ~Loaded("ACML")) =>
             /\ CountCalls({"BLAS_lib"}) = 1
             /\ "INTEL_INC" \notin DOMAIN options
             /\ "ACML_INC" \notin DOMAIN options
             /\ CountChunk(options["DFLAGS"], "-D__FFTACML") = 0
             /\ CountChunk(options["DFLAGS"], "-D__FFTMKL") = 0
             /\ CountChunk(options["LIBS"], "-lblas") = 1
             /\ CountChunk(options["LIBS"], "-lscalapack")
                   = IF Loaded("ScaLAPACK") THEN 1 ELSE 0

C7_Witness ==
    /\ cpc = "done"
    /\ Loaded("IMKL")
    /\ Loaded("ACML")
    /\ calls[Len(calls)] = "MKL"

\* C8: for the Intel and the GCC family and for popt and psmp, a toolchain
\* with no recognized MPI family and no known MPI library loaded ends
\* configure_step in an error, with no options and no arch file.
C8_NoMpi2IsError ==
    (/\ cpc /= "ready"
     /\ facts.comp_fam \in {"Intel", "GCC"}
     /\ facts.type \in {"popt", "psmp"}
     /\ facts.mpi_family \notin MPI2Families
     /\ facts.loaded \cap MPI2Libs = {})
    => /\ cpc = "failed"
       /\ cfg_exc /= "none"
       /\ options = NoOptions
       /\ archfile = NoText
       /\ ReachesCommon => cfg_exc = ErrMPI2

C8_Witness ==
    /\ cpc = "failed"
    /\ cfg_exc = ErrMPI2
    /\ facts.comp_fam = "Intel"
    /\ facts.type = "psmp"
    /\ facts.mpi_family = "QLogicMPI"
    /\ Loaded("LibInt")

LibintArchives ==
    {"$(LIBINTLIB)/libderiv.a", "$(LIBINTLIB)/libint.a", "$(LIBINTLIB)/libr12.a",
     "$(LIBINTLIB)/libint2.a"}

CountIn(str, cs) == Cardinality({i \in 1..Len(str) : str[i] \in cs})

\* C9: with LibInt loaded, major version '1' adds exactly the three archives
\* libderiv.a, libint.a and libr12.a to LIBS, major version '2' exactly
\* libint2.a, and every other major version ends configure_step in an error.
C9_LibintByMajorVersion ==
    (cpc /= "ready" /\ Loaded("LibInt")) =>
       LET major == Head(facts.libint_version) IN
       /\ (major = <<1>> /\ cpc = "done") =>
             /\ CountChunk(options["LIBS"], "$(LIBINTLIB)/libderiv.a") = 1
             /\ CountChunk(options["LIBS"], "$(LIBINTLIB)/libint.a") = 1
             /\ CountChunk(options["LIBS"], "$(LIBINTLIB)/libr12.a") = 1
             /\ CountIn(options["LIBS"], LibintArchives) = 3
       /\ (major = <<2>> /\ cpc = "done") =>
             /\ CountChunk(options["LIBS"], "$(LIBINTLIB)/libint2.a") = 1
             /\ CountIn(options["LIBS"], LibintArchives) = 1
       /\ (major \in {<<1>>, <<2>>}) => cfg_exc /= ErrLibint
       /\ (major \notin {<<1>>, <<2>>}) =>
             /\ cpc = "failed"
             /\ options = NoOptions
             /\ (ReachesCommon /\ mpi2(facts)) => cfg_exc = ErrLibint

C9_Witness ==
    /\ cpc = "failed"
    /\ cfg_exc = ErrLibint
    /\ Head(facts.libint_version) = <<3>>

\* The libxc versions of the facts by what is expected of them: below
\* 2.0.1, from 2.0.1 up to 2.2, and 2.2 or later (2.10 and 10.0 are later
\* than 2.2 as versions and earlier as strings).
LibxcTooOld == {<<<<2>>, <<0>>>>}
LibxcOneLibrary == {<<<<2>>, <<0>>, <<1>>>>, <<<<2>>, <<1>>>>}
LibxcTwoLibraries == {<<<<2>>, <<2>>>>, <<<<2>>, <<1, 0>>>>, <<<<1, 0>>, <<0>>>>}

\* C10: with libxc loaded, a version below 2.0.1 ends configure_step in an
\* error, a version of 2.2 or later adds -lxcf90 -lxc, a version from 2.0.1
\* up to 2.2 adds -lxc alone, and both accepted cases add -D__LIBXC2; the
\* versions are ordered as dotted versions.
C10_LibxcByVersion ==
    (cpc /= "ready" /\ Loaded("libxc")) =>
       LET v == facts.libxc_version IN
       /\ v \in LibxcTooOld \cup LibxcOneLibrary \cup LibxcTwoLibraries
       /\ (v \in LibxcTooOld) =>
             /\ cpc = "failed"
             /\ options = NoOptions
             /\ (/\ ReachesCommon
                 /\ mpi2(facts)
                 /\ Loaded("LibInt") => Head(facts.libint_version) \in {<<1>>, <<2>>})
                => cfg_exc = ErrLibxc
       /\ (v \notin LibxcTooOld) => cfg_exc /= ErrLibxc
       /\ (v \in LibxcTwoLibraries /\ cpc = "done") =>
             /\ CountChunk(options["LIBS"], "-lxcf90") = 1
             /\ CountChunk(options["LIBS"], "-lxc") = 1
             /\ CountChunk(options["DFLAGS"], "-D__LIBXC2") = 1
       /\ (v \in LibxcOneLibrary /\ cpc = "done") =>
             /\ CountChunk(options["LIBS"], "-lxcf90") = 0
             /\ CountChunk(options["LIBS"], "-lxc") = 1
             /\ CountChunk(options["DFLAGS"], "-D__LIBXC2") = 1

C10_Witness ==
    /\ cpc = "done"
    /\ Loaded("libxc")
    /\ facts.libxc_version = <<<<2>>, <<1, 0>>>>
    /\ CountChunk(options["LIBS"], "-lxcf90") = 1

\* The ifort versions of the facts by what the gate of lines 429-451 is
\* expected to do with them: two rules (2011.10), one rule (11.1.072, 12.1,
\* 2013.3), rejected (10.1, 11.1.069, 2011.6).
IfortTwoRules == {<<<<2, 0, 1, 1>>, <<1, 0>>>>}
IfortOneRule ==
    {<<<<1, 1>>, <<1>>, <<0, 7, 2>>>>, <<<<1, 2>>, <<1>>>>, <<<<2, 0, 1, 3>>, <<3>>>>}
IfortRejected ==
    {<<<<1, 0>>, <<1>>>>, <<<<1, 1>>, <<1>>, <<0, 6, 9>>>>, <<<<2, 0, 1, 1>>, <<6>>>>}

\* A supported compiler family and build type, a recognized MPI family, a
\* compiler version the family accepts, and nothing loaded.
MinimalProfile ==
    /\ facts.type \in {"popt", "psmp"}
    /\ facts.comp_fam \in {"Intel", "GCC"}
    /\ (facts.comp_fam = "Intel") => facts.ifort_version \in IfortTwoRules \cup IfortOneRule
    /\ facts.mpi_family \in MPI2Families
    /\ facts.loaded = {}
    /\ ~facts.modinc

MPI2Defines == {"-D__parallel", "-D__BLACS", "-D__SCALAPACK"}

\* C11: for the Intel and the GCC family and for popt and psmp, with a
\* recognized MPI family and nothing loaded, configure_step succeeds, and
\* each of -D__parallel, -D__BLACS and -D__SCALAPACK occurs exactly once in
\* the arch file, in its DFLAGS line.
C11_MinimalProfileSucceeds ==
    (cpc /= "ready" /\ MinimalProfile) =>
       /\ cpc = "done"
       /\ cfg_exc = "none"
       /\ \A d \in MPI2Defines :
             /\ CountChunk(archfile, d) = 1
             /\ CountChunk(options["DFLAGS"], d) = 1

C11_Witness ==
    /\ cpc = "done"
    /\ MinimalProfile
    /\ facts.comp_fam = "Intel"
    /\ facts.type = "psmp"
    /\ CountChunk(archfile, "-D__SCALAPACK") = 1

\* The line of the arch file for directive k of the options.
LineOf(k) == <<k, " ", "=", " ">> \o options[k] \o <<"\n">>

\* The keys of the options in the order in which configure_step sets them.
InsertionOrder ==
    LET present(k) == k \in DOMAIN options IN SelectSeq(OptionKeys, present)

RECURSIVE LinesInOrder(_)
LinesInOrder(order) ==
    IF order = <<>> THEN <<>> ELSE LineOf(Head(order)) \o LinesInOrder(Tail(order))

RECURSIVE SumLen(_)
SumLen(ks) ==
    IF ks = {} THEN 0
    ELSE LET k == CHOOSE x \in ks : TRUE IN Len(LineOf(k)) + SumLen(ks \ {k})

\* C12 as stated: the arch file is the header, then one KEY = VALUE line
\* per directive in the order in which the directives were inserted, then
\* the make instructions.
C12_InsertionOrder ==
    (cpc = "done") =>
       archfile = MakefileHeader \o LinesInOrder(InsertionOrder) \o self.make_instructions

\* C12 as amended: the arch file is the header, then one KEY = VALUE line
\* per directive, each directive exactly once and nothing else, in an order
\* that need not be the order of insertion, then the make instructions.
C12_EveryDirectiveOnce ==
    (cpc = "done") =>
       LET n == Len(archfile)
           h == Len(MakefileHeader)
           m == Len(self.make_instructions)
       IN  /\ DOMAIN options \subseteq {OptionKeys[i] : i \in 1..Len(OptionKeys)}
           /\ n = h + SumLen(DOMAIN options) + m
           /\ SubSeq(archfile, 1, h) = MakefileHeader
           /\ SubSeq(archfile, n - m + 1, n) = self.make_instructions
           /\ \A k \in DOMAIN options :
                 CountOcc(SubSeq(archfile, h + 1, n - m), LineOf(k)) = 1

C12_Witness ==
    /\ cpc = "done"
    /\ self.make_instructions /= <<>>
    /\ options["CPP"] = <<>>
    /\ "FFTW3LIB" \in DOMAIN options
    /\ archfile /= MakefileHeader \o LinesInOrder(InsertionOrder) \o self.make_instructions

\* The place of the first chunk c in str, 0 if there is none.
Pos(str, c) ==
    IF \E i \in 1..Len(str) : str[i] = c
    THEN CHOOSE i \in 1..Len(str) : str[i] = c /\ \A j \in 1..(i - 1) : str[j] /= c
    ELSE 0

FamilyDefine == IF facts.comp_fam = "Intel" THEN "-D__INTEL" ELSE "-D__GFORTRAN"

\* What the library rules add to DFLAGS, LIBS and CFLAGS: LibInt and libxc
\* (of configure_common), and the BLAS provider, FFTW, LAPACK and ScaLAPACK.
CommonLibDefines == {"-D__LIBINT", "-D__LIBXC2"}
LaterLibDefines == {"-D__FFTW3", "-D__FFTMKL", "-D__FFTACML"}
AppendedLibs ==
    LibintArchives \cup
    {"-lstdc++", "-lxc", "-lxcf90", "-lblas", "-lscalapack", "-lfftw3", "-llapack_mt"}
LibIncludes == {"-I$(INTEL_INC)", "-I$(INTEL_INCF)", "-I$(ACML_INC)", "-I$(FFTW_INC)"}

\* Every chunk of cs that occurs in str occurs behind the first chunk c.
AllBehind(str, cs, c) ==
    /\ Pos(str, c) > 0
    /\ \A x \in cs : Pos(str, x) > 0 => Pos(str, x) > Pos(str, c)

IfortErrors ==
    {"CP2K won't build correctly with the Intel v12 compilers prior to v2011.8",
     "CP2K won't build correctly with the Intel v11 compilers prior to v11.1.072",
     "Intel compilers version not supported yet."}

\* The facts let configure_intel_based reach the gate on the ifort version.
ReachesIfortGate ==
    /\ ReachesCommon
    /\ facts.comp_fam = "Intel"
    /\ mpi2(facts)
    /\ Loaded("LibInt") => Head(facts.libint_version) \in {<<1>>, <<2>>}
    /\ Loaded("libxc") => facts.libxc_version \notin LibxcTooOld

\* The arch file ends with the make instructions mi.
EndsWith(mi) ==
    /\ Len(archfile) >= Len(mi)
    /\ SubSeq(archfile, Len(archfile) - Len(mi) + 1, Len(archfile)) = mi

\* C14: for the Intel family, an ifort version in [2011, 2012) is accepted
\* iff it is 2011.8 or later (2011.10 is, 2011.6 is not) and then adds the
\* rules for et_coupling.o and qs_vxc_atom.o; another version of 11 or later
\* is accepted iff it is 11.1.072 or later (11.1.069 is not) and then adds
\* the rule for qs_vxc_atom.o; a version below 11 is an error; a rejected
\* version ends in an error of the gate with no rule added and nothing
\* written.
C14_IfortGate ==
    (cpc /= "ready" /\ facts.comp_fam = "Intel") =>
       LET v == facts.ifort_version IN
       /\ v \in IfortTwoRules \cup IfortOneRule \cup IfortRejected
       /\ (v \in IfortTwoRules \cup IfortOneRule) =>
             /\ cfg_exc \notin IfortErrors
             /\ ReachesIfortGate => cpc = "done"
       /\ (v \in IfortTwoRules /\ cpc = "done") =>
             /\ self.make_instructions = Rule_et_coupling \o Rule_qs_vxc_atom
             /\ EndsWith(Rule_et_coupling \o Rule_qs_vxc_atom)
             /\ CountChunk(archfile, Rule_et_coupling[1]) = 1
             /\ CountChunk(archfile, Rule_qs_vxc_atom[1]) = 1
       /\ (v \in IfortOneRule /\ cpc = "done") =>
             /\ self.make_instructions = Rule_qs_vxc_atom
             /\ EndsWith(Rule_qs_vxc_atom)
             /\ CountChunk(archfile, Rule_et_coupling[1]) = 0
             /\ CountChunk(archfile, Rule_qs_vxc_atom[1]) = 1
       /\ (v \in IfortRejected) =>
             /\ cpc = "failed"
             /\ cfg_exc /= "none"
             /\ self.make_instructions = <<>>
             /\ archfile = NoText
             /\ options = NoOptions
             /\ ReachesIfortGate =>
                   cfg_exc = IF v = <<<<2, 0, 1, 1>>, <<6>>>>
                             THEN "CP2K won't build correctly with the Intel v12 compilers prior to v2011.8"
                             ELSE IF v = <<<<1, 1>>, <<1>>, <<0, 6, 9>>>>
                             THEN "CP2K won't build correctly with the Intel v11 compilers prior to v11.1.072"
                             ELSE "Intel compilers version not supported yet."

C14_WitnessRejected ==
    /\ cpc = "failed"
    /\ facts.ifort_version = <<<<1, 1>>, <<1>>, <<0, 6, 9>>>>
    /\ cfg_exc = "CP2K won't build correctly with the Intel v11 compilers prior to v11.1.072"

C14_Witness ==
    /\ cpc = "done"
    /\ facts.ifort_version = <<<<2, 0, 1, 1>>, <<1, 0>>>>
    /\ self.make_instructions = Rule_et_coupling \o Rule_qs_vxc_atom

OpenmpFlags == {"-openmp", "-fopenmp"}

\* C15 as stated: a call of configure_step leaves the options a first call
\* on a new instance leaves for the same facts; two calls in a row with the
\* same facts leave the same options; and a popt call after a psmp call has
\* no OpenMP flag in FC and LD.
C15_NoStateBetweenCalls ==
    (cpc \in {"done", "failed"}) =>
       /\ options = configure_step(InitialSelf, facts).options
       /\ (ncalls >= 2 /\ facts = prev_facts) => options = prev_options
       /\ (ncalls >= 2 /\ cpc = "done" /\ facts.type = "popt" /\ prev_facts.type = "psmp") =>
             /\ CountIn(options["FC"], OpenmpFlags) = 0
             /\ CountIn(options["LD"], OpenmpFlags) = 0

Has(k, c) == CountChunk(options[k], c) >= 1

\* -heap-arrays 64 stands in options[k], once.
HasHeapArrays(k) ==
    /\ CountOcc(options[k], <<"-heap-arrays", " ", "64">>) = 1
    /\ CountChunk(options[k], "-heap-arrays") = 1

\* C16 as stated: for GCC, FCFLAGSOPT has -march=native and
\* -fmax-stack-var-size=32768 iff optarch is set; for Intel, FCFLAGSOPT and
\* FCFLAGSOPT2 have -xHOST and -heap-arrays 64 iff optarch is set.
C16_TuningFlagsOnlyWithOptarch ==
    (cpc = "done") =>
       /\ (facts.comp_fam = "GCC") =>
             /\ Has("FCFLAGSOPT", "-march=native") <=> facts.optarch
             /\ Has("FCFLAGSOPT", "-fmax-stack-var-size=32768") <=> facts.optarch
       /\ (facts.comp_fam = "Intel") =>
             \A k \in {"FCFLAGSOPT", "FCFLAGSOPT2"} :
                /\ Has(k, "-xHOST") <=> facts.optarch
                /\ Has(k, "-heap-arrays") <=> facts.optarch

\* C16 as amended: for GCC, FCFLAGSOPT and FCFLAGSOPT2 have -march=native
\* iff optarch is set, and FCFLAGSOPT has -fmax-stack-var-size=32768 with
\* and without optarch; for Intel, FCFLAGSOPT and FCFLAGSOPT2 have -xHOST
\* iff optarch is set, and -heap-arrays 64 with and without optarch.
C16_OnlyArchFlagFollowsOptarch ==
    (cpc = "done") =>
       /\ (facts.comp_fam = "GCC") =>
             /\ \A k \in {"FCFLAGSOPT", "FCFLAGSOPT2"} :
                   /\ CountChunk(options[k], "-march=native") = IF facts.optarch THEN 1 ELSE 0
                   /\ ~Has(k, "-xHOST")
                   /\ ~Has(k, "-heap-arrays")
             /\ CountChunk(options["FCFLAGSOPT"], "-fmax-stack-var-size=32768") = 1
             /\ ~Has("FCFLAGSOPT2", "-fmax-stack-var-size=32768")
       /\ (facts.comp_fam = "Intel") =>
             \A k \in {"FCFLAGSOPT", "FCFLAGSOPT2"} :
                /\ CountChunk(options[k], "-xHOST") = IF facts.optarch THEN 1 ELSE 0
                /\ HasHeapArrays(k)
                /\ ~Has(k, "-march=native")
                /\ ~Has(k, "-fmax-stack-var-size=32768")

C16_Witness ==
    /\ cpc = "done"
    /\ facts.comp_fam = "GCC"
    /\ ~facts.optarch
    /\ ~Has("FCFLAGSOPT", "-march=native")
    /\ Has("FCFLAGSOPT", "-fmax-stack-var-size=32768")

\* What the toolchain and the loaded modules say about MPI.
DeclaresFamily == facts.mpi_family /= "None"
KnownMpiLoaded == facts.loaded \cap {"impi", "MVAPICH2", "OpenMPI", "MPICH2", "MPICH"} /= {}
RecognizedFamily ==
    facts.mpi_family \in {"MPICH", "MPICH2", "MVAPICH2", "OpenMPI", "IntelMPI"}

\* C17 as stated: the MPI-2 test fails iff the toolchain names no
\* recognized MPI family and no known MPI library is loaded; a known MPI
\* library that is loaded passes it also when the toolchain names an MPI
\* family that is not recognized.
C17_EitherPathPasses ==
    (cpc /= "ready" /\ ReachesCommon) =>
       ((cfg_exc = ErrMPI2) <=> (~RecognizedFamily /\ ~KnownMpiLoaded))

\* C17 as amended: the MPI-2 test passes iff the toolchain names a
\* recognized MPI family, or names no MPI family at all and a known MPI
\* library is loaded; with a named family that is not recognized it fails,
\* whatever is loaded.
C17_ScanOnlyWithoutFamily ==
    (cpc /= "ready" /\ ReachesCommon) =>
       /\ (cfg_exc = ErrMPI2) <=>
             ~(RecognizedFamily \/ (~DeclaresFamily /\ KnownMpiLoaded))
       /\ (cfg_exc = ErrMPI2) =>
             /\ cpc = "failed"
             /\ options = NoOptions
             /\ archfile = NoText

C17_Witness ==
    /\ cpc = "failed"
    /\ cfg_exc = ErrMPI2
    /\ DeclaresFamily
    /\ ~RecognizedFamily
    /\ KnownMpiLoaded

C17_WitnessScan ==
    /\ cpc = "done"
    /\ ~DeclaresFamily
    /\ KnownMpiLoaded

====
